---------------------------- MODULE Spec2Model ----------------------------
(***************************************************************************)
(* Model of the BFS crawler of g4.py (class AggressiveCrawlerGUI).         *)
(*                                                                         *)
(* Two kinds of execution context exist in the program: the Tk main        *)
(* thread, which runs the button callbacks start_scraping and              *)
(* stop_scraping one at a time, and the threads created by                 *)
(* start_scraping, each running run_bfs.  The instance fields queue,       *)
(* visited, running and output_file and the file system are shared by all  *)
(* of them without any lock, so every access to a shared field is a step   *)
(* of its own and the steps of the contexts interleave freely.             *)
(*                                                                         *)
(* The log widget (output_area) is modelled by what is inserted into it:   *)
(* `events' lists, per BFS thread and in order, the [SCRAPED], [ERROR] and *)
(* "BFS finished" lines the thread inserted.                               *)
(***************************************************************************)
EXTENDS Integers, Sequences, FiniteSets, TLC

\* ------------------------------------------------------------------ bounds
MaxStarts == 2     \* clicks on "Start Scraping" in one behaviour
MaxBudget == 2     \* largest number typed into "Max pages"
MaxLinks  == 2     \* <a> elements on one fetched page
MaxClock  == 1     \* seconds the wall clock advances in one behaviour

\* ------------------------------------------------------------ URL strings
\* A URL string is held in its parsed form (urlparse): scheme (a sequence
\* of characters), netloc, path (the segments after the leading "/"; "/"
\* itself is <<"">>) and fragment.  Two strings are equal iff their parsed
\* forms are.
HTTP   == <<"h", "t", "t", "p">>
HTTPS  == <<"h", "t", "t", "p", "s">>
MAILTO == <<"m", "a", "i", "l", "t", "o">>
JAVASCRIPT == <<"j", "a", "v", "a", "s", "c", "r", "i", "p", "t">>
NoScheme == << >>

Url(scheme, netloc, path, frag) ==
    [scheme |-> scheme, netloc |-> netloc, path |-> path, frag |-> frag]

EmptyString == Url(NoScheme, "", << >>, "")      \* ""
NoHref == [none |-> TRUE]                        \* link.get("href") is None

SeedUrl  == Url(HTTPS, "x.test", <<"">>, "")              \* https://x.test/
PageY    == Url(HTTPS, "x.test", <<"y">>, "")             \* https://x.test/y
HrefMailto   == Url(MAILTO, "", <<"a@b.com">>, "")        \* mailto:a@b.com
HrefFragment == Url(NoScheme, "", << >>, "section")       \* #section
HrefScript   == Url(JAVASCRIPT, "", <<"void(0)">>, "")    \* javascript:void(0)
HrefRelative == Url(NoScheme, "", <<"y">>, "")            \* y

\* str.startswith
StartsWith(s, prefix) ==
    /\ Len(s) >= Len(prefix)
    /\ SubSeq(s, 1, Len(prefix)) = prefix

\* urllib.parse.uses_relative / uses_netloc, restricted to the schemes above
uses_relative == {HTTP, HTTPS, NoScheme}
uses_netloc   == {HTTP, HTTPS, NoScheme}

Front(s) == SubSeq(s, 1, Len(s) - 1)
NonEmptySeg(x) == x # ""

\* urljoin's path merge: the base path without its last segment (unless that
\* is empty), then the reference's segments, empty middle segments dropped.
MergePath(bpath, path) ==
    LET base_parts == IF bpath # << >> /\ bpath[Len(bpath)] # ""
                      THEN Front(bpath) ELSE bpath
        segments == base_parts \o path
    IN  SelectSeq(Front(segments), NonEmptySeg) \o <<segments[Len(segments)]>>

\* urllib.parse.urljoin(base, url) for a non-empty base and url.
urljoin(base, url) ==
    LET scheme == IF url.scheme = NoScheme THEN base.scheme ELSE url.scheme
    IN  IF scheme # base.scheme \/ scheme \notin uses_relative
        THEN url
        ELSE IF scheme \in uses_netloc /\ url.netloc # ""
        THEN Url(scheme, url.netloc, url.path, url.frag)
        ELSE IF url.path = << >>
        THEN Url(scheme, base.netloc, base.path, url.frag)
        ELSE Url(scheme, base.netloc, MergePath(base.path, url.path), url.frag)

\* `if not href: continue' (line 185): None and "" are skipped.
HrefMissing(href) == href = NoHref \/ href = EmptyString

\* line 189: urlparse(absolute_url).scheme.startswith("http")
SchemeAccepted(absolute_url) == StartsWith(absolute_url.scheme, HTTP)

\* ------------------------------------------------------------ environment
\* What an <a> element of a fetched page may carry.
Hrefs == {NoHref, EmptyString, HrefMailto, HrefFragment, HrefScript,
          HrefRelative, PageY}
\* The two kinds the frontier tells apart when starts overlap: an element
\* without href and a link to another page.
PlainHrefs == {NoHref, PageY}

\* len(soup.find_all("a")) of a fetched page.  The page is the environment's
\* choice and nothing but scrape_page's loop reads it, so the href of each
\* element is drawn when the loop reaches it, in document order.
LinkCounts == 0..MaxLinks

\* What the user can have typed into the two entries.
UrlEntries == {[pad |-> p, body |-> b] : p \in BOOLEAN, b \in {EmptyString, SeedUrl}}
NotANumber == "abc"
MaxPagesEntries == {ToString(n) : n \in -1..MaxBudget} \cup {NotANumber}

\* str.strip() of the URL entry
Strip(entry) == entry.body

\* int(text): the integer, or ValueError
IsIntText(text) == \E n \in -1..MaxBudget : ToString(n) = text
IntOf(text) == CHOOSE n \in -1..MaxBudget : ToString(n) = text

\* ------------------------------------------------------------------ files
\* A file is the sequence of its blocks: the header line and page records.
Header == [line |-> "=== Begin scraping ==="]
Record(page_id, url) == [page |-> page_id, url |-> url]
\* get_timestamped_filename: one name per second of the wall clock
get_timestamped_filename(now) == now
FileNames == 0..MaxClock

Threads == 1..MaxStarts

VARIABLES
    queue,          \* self.queue
    visited,        \* self.visited
    running,        \* self.running
    output_file,    \* self.output_file
    files,          \* file system: name -> lines/records of the file
    clock,          \* datetime.datetime.now(), in seconds
    \* the Tk main thread
    main_pc,        \* position of the main thread in start_scraping
    use_existing,   \* self.use_existing_var.get() of the current callback
    url,            \* local `url' of start_scraping
    max_pages_text, \* self.max_pages_entry.get() of the current callback
    starts,         \* clicks on Start so far
    nthreads,       \* threads created so far
    messagebox,     \* text of the last messagebox.showerror, "" if none
    \* the BFS threads
    pc,             \* position of each thread in run_bfs / scrape_page
    max_pages,      \* run_bfs argument
    page_count,     \* local of run_bfs
    current_url,    \* local of run_bfs
    links,          \* elements of soup.find_all("a") the for loop has still to visit
    href,           \* local of scrape_page (line 184)
    absolute_url,   \* local of scrape_page (line 187)
    \* history
    events,         \* lines each thread inserted into output_area
    dequeued,       \* URLs each thread took from the queue, in order
    stopAt          \* page_count of a thread when stop was first clicked in its run, or -1

shared == <<queue, visited, running, output_file, files, clock>>
mainv  == <<main_pc, use_existing, url, max_pages_text, starts, nthreads, messagebox>>
bfsv   == <<pc, max_pages, page_count, current_url, links, href, absolute_url>>
histv  == <<events, dequeued, stopAt>>
vars   == <<shared, mainv, bfsv, histv>>

\* The lines a BFS thread inserts into output_area (lines 167, 179, 154).
ErrorEvent(u) == [kind |-> "ERROR", url |-> u]
ScrapedEvent(page_id, u) == [kind |-> "SCRAPED", page |-> page_id, url |-> u]
FinishedEvent(total) == [kind |-> "FINISHED", total |-> total]

\* __init__ (lines 47-52)
Init ==
    /\ queue = << >>
    /\ visited = {}
    /\ running = FALSE
    /\ clock = 0
    /\ output_file = get_timestamped_filename(0)
    /\ files = [f \in FileNames |-> << >>]
    /\ main_pc = "idle"
    /\ use_existing = FALSE
    /\ url = EmptyString
    /\ max_pages_text = NotANumber
    /\ starts = 0
    /\ nthreads = 0
    /\ messagebox = ""
    /\ pc = [t \in Threads |-> "unborn"]
    /\ max_pages = [t \in Threads |-> 0]
    /\ page_count = [t \in Threads |-> 0]
    /\ current_url = [t \in Threads |-> EmptyString]
    /\ links = [t \in Threads |-> 0]
    /\ href = [t \in Threads |-> NoHref]
    /\ absolute_url = [t \in Threads |-> EmptyString]
    /\ events = [t \in Threads |-> << >>]
    /\ dequeued = [t \in Threads |-> << >>]
    /\ stopAt = [t \in Threads |-> -1]

\* ------------------------------------------------------- the main thread
\* Thread positions inside the while loop of run_bfs (lines 148-152).
InLoop == {"test_running", "test_queue", "pop", "fetch", "append",
           "next_link", "visited_add", "queue_append"}
\* Positions of a thread whose run_bfs has not returned or died.
Executing == InLoop \cup {"finish"}

\* start_scraping returns (or an exception ends it): the main thread is back
\* in the event loop and the callback's locals are gone.
Return ==
    /\ main_pc' = "idle"
    /\ use_existing' = FALSE
    /\ url' = EmptyString
    /\ max_pages_text' = NotANumber

\* start_scraping, lines 104-107: the click, at wall-clock time `now', reads
\* the checkbox and the two entries and, unless appending, picks a new file
\* name.  Nothing else reads the clock, so it advances here.
StartClick(now, use, url_entry, max_entry) ==
    /\ main_pc = "idle"
    /\ starts < MaxStarts
    /\ starts' = starts + 1
    /\ clock' = now
    /\ use_existing' = use
    /\ url' = Strip(url_entry)
    /\ max_pages_text' = max_entry
    /\ messagebox' = ""
    /\ output_file' = IF ~use THEN get_timestamped_filename(now) ELSE output_file
    /\ main_pc' = "clear_queue"
    /\ UNCHANGED <<queue, visited, running, files, nthreads, bfsv, histv>>

\* line 110: self.queue.clear()
ClearQueue ==
    /\ main_pc = "clear_queue"
    /\ queue' = << >>
    /\ main_pc' = "clear_visited"
    /\ UNCHANGED <<visited, running, output_file, files, clock, use_existing, url,
                   max_pages_text, starts, nthreads, messagebox, bfsv, histv>>

\* lines 111-122: self.visited.clear(), then the two checks of the input,
\* each of which shows an error and returns.
ClearVisited ==
    /\ main_pc = "clear_visited"
    /\ visited' = {}
    /\ IF url = EmptyString
       THEN Return /\ messagebox' = "Please provide a starting URL."
       ELSE IF ~IsIntText(max_pages_text)
       THEN Return /\ messagebox' = "Max pages must be an integer."
       ELSE /\ main_pc' = "seed_queue"
            /\ UNCHANGED <<use_existing, url, max_pages_text, messagebox>>
    /\ UNCHANGED <<queue, running, output_file, files, clock, starts, nthreads,
                   bfsv, histv>>

\* line 125: self.queue.append(url)
SeedQueue ==
    /\ main_pc = "seed_queue"
    /\ queue' = Append(queue, url)
    /\ main_pc' = "seed_visited"
    /\ UNCHANGED <<visited, running, output_file, files, clock, use_existing, url,
                   max_pages_text, starts, nthreads, messagebox, bfsv, histv>>

\* line 126: self.visited.add(url)
SeedVisited ==
    /\ main_pc = "seed_visited"
    /\ visited' = visited \cup {url}
    /\ main_pc' = "open_file"
    /\ UNCHANGED <<queue, running, output_file, files, clock, use_existing, url,
                   max_pages_text, starts, nthreads, messagebox, bfsv, histv>>

\* lines 134-135: open(self.output_file, "w") and the header.  The
\* truncation and the write of the header are taken as one step.
OpenFile ==
    /\ main_pc = "open_file"
    /\ files' = [files EXCEPT ![output_file] = <<Header>>]
    /\ main_pc' = "set_running"
    /\ UNCHANGED <<queue, visited, running, output_file, clock, use_existing, url,
                   max_pages_text, starts, nthreads, messagebox, bfsv, histv>>

\* line 134 raising OSError: the callback ends there.
OpenFileFails ==
    /\ main_pc = "open_file"
    /\ Return
    /\ UNCHANGED <<shared, starts, nthreads, messagebox, bfsv, histv>>

\* line 137: self.running = True
SetRunning ==
    /\ main_pc = "set_running"
    /\ running' = TRUE
    /\ main_pc' = "start_thread"
    /\ UNCHANGED <<queue, visited, output_file, files, clock, use_existing, url,
                   max_pages_text, starts, nthreads, messagebox, bfsv, histv>>

\* lines 138-139 and 146: the thread is created and begins run_bfs(max_pages)
\* with page_count = 0.
StartThread ==
    /\ main_pc = "start_thread"
    /\ nthreads' = nthreads + 1
    /\ pc' = [pc EXCEPT ![nthreads + 1] = "test_running"]
    /\ max_pages' = [max_pages EXCEPT ![nthreads + 1] = IntOf(max_pages_text)]
    /\ page_count' = [page_count EXCEPT ![nthreads + 1] = 0]
    /\ Return
    /\ UNCHANGED <<shared, starts, messagebox, current_url, links, href,
                   absolute_url, histv>>

\* StopClick that also drops the pending URLs.
StopClickResets ==
    /\ main_pc = "idle"
    /\ running' = FALSE
    /\ queue' = << >>
    /\ stopAt' = [t \in Threads |->
                    IF pc[t] \in InLoop /\ stopAt[t] = -1 THEN page_count[t] ELSE stopAt[t]]
    /\ UNCHANGED <<visited, output_file, files, clock, mainv, bfsv, events, dequeued>>

\* stop_scraping, lines 141-143.
StopClick ==
    /\ main_pc = "idle"
    /\ running' = FALSE
    /\ stopAt' = [t \in Threads |->
                    IF pc[t] \in InLoop /\ stopAt[t] = -1 THEN page_count[t] ELSE stopAt[t]]
    /\ UNCHANGED <<queue, visited, output_file, files, clock, mainv, bfsv, events, dequeued>>

\* ------------------------------------------------------- the BFS threads
\* line 148, first two operands of the loop condition: self.running, then
\* page_count < max_pages.  False ends the loop.
TestRunning(t) ==
    /\ pc[t] = "test_running"
    /\ pc' = [pc EXCEPT ![t] = IF running /\ page_count[t] < max_pages[t]
                               THEN "test_queue" ELSE "finish"]
    /\ UNCHANGED <<shared, mainv, max_pages, page_count, current_url, links,
                   href, absolute_url, histv>>

\* TestQueue for a loop that waits for work on an empty queue instead of
\* ending.
TestQueueWaits(t) ==
    /\ pc[t] = "test_queue"
    /\ pc' = [pc EXCEPT ![t] = IF queue # << >> THEN "pop" ELSE "test_running"]
    /\ UNCHANGED <<shared, mainv, max_pages, page_count, current_url, links,
                   href, absolute_url, histv>>

\* line 148, last operand: self.queue (non-empty).
TestQueue(t) ==
    /\ pc[t] = "test_queue"
    /\ pc' = [pc EXCEPT ![t] = IF queue # << >> THEN "pop" ELSE "finish"]
    /\ UNCHANGED <<shared, mainv, max_pages, page_count, current_url, links,
                   href, absolute_url, histv>>

\* Pop taking the newest URL (deque.pop()) instead of the oldest.
PopNewest(t) ==
    /\ pc[t] = "pop"
    /\ IF queue = << >>
       THEN /\ pc' = [pc EXCEPT ![t] = "crashed"]
            /\ UNCHANGED <<queue, current_url, dequeued>>
       ELSE /\ current_url' = [current_url EXCEPT ![t] = queue[Len(queue)]]
            /\ queue' = Front(queue)
            /\ dequeued' = [dequeued EXCEPT ![t] = Append(@, queue[Len(queue)])]
            /\ pc' = [pc EXCEPT ![t] = "fetch"]
    /\ UNCHANGED <<visited, running, output_file, files, clock, mainv, max_pages,
                   page_count, links, href, absolute_url, events, stopAt>>

\* line 149: current_url = self.queue.popleft(); IndexError on an empty
\* deque ends the thread.
Pop(t) ==
    /\ pc[t] = "pop"
    /\ IF queue = << >>
       THEN /\ pc' = [pc EXCEPT ![t] = "crashed"]
            /\ UNCHANGED <<queue, current_url, dequeued>>
       ELSE /\ current_url' = [current_url EXCEPT ![t] = Head(queue)]
            /\ queue' = Tail(queue)
            /\ dequeued' = [dequeued EXCEPT ![t] = Append(@, Head(queue))]
            /\ pc' = [pc EXCEPT ![t] = "fetch"]
    /\ UNCHANGED <<visited, running, output_file, files, clock, mainv, max_pages,
                   page_count, links, href, absolute_url, events, stopAt>>

\* FetchFails with the failed URL put back on the queue for another try.
FetchFailsRetried(t) ==
    /\ pc[t] = "fetch"
    /\ events' = [events EXCEPT ![t] = Append(@, ErrorEvent(current_url[t]))]
    /\ queue' = Append(queue, current_url[t])
    /\ pc' = [pc EXCEPT ![t] = "test_running"]
    /\ UNCHANGED <<visited, running, output_file, files, clock, mainv, max_pages,
                   page_count, current_url, links, href, absolute_url, dequeued, stopAt>>

\* lines 163-168: requests.get or raise_for_status raises RequestException:
\* the [ERROR] line, return False, and back to the loop condition.
FetchFails(t) ==
    /\ pc[t] = "fetch"
    /\ events' = [events EXCEPT ![t] = Append(@, ErrorEvent(current_url[t]))]
    /\ pc' = [pc EXCEPT ![t] = "test_running"]
    /\ UNCHANGED <<shared, mainv, max_pages, page_count, current_url, links,
                   href, absolute_url, dequeued, stopAt>>

\* lines 164-171: the GET succeeds and the page is parsed.
FetchOk(t, nlinks) ==
    /\ pc[t] = "fetch"
    /\ links' = [links EXCEPT ![t] = nlinks]
    /\ pc' = [pc EXCEPT ![t] = "append"]
    /\ UNCHANGED <<shared, mainv, max_pages, page_count, current_url, href,
                   absolute_url, histv>>

\* Where scrape_page goes after a link: the next link, or `return True'
\* (line 194) and lines 151-152, page_count += 1.
AfterLink(t, rest) ==
    /\ links' = [links EXCEPT ![t] = rest]
    /\ IF rest = 0
       THEN /\ pc' = [pc EXCEPT ![t] = "test_running"]
            /\ page_count' = [page_count EXCEPT ![t] = @ + 1]
       ELSE /\ pc' = [pc EXCEPT ![t] = "next_link"]
            /\ UNCHANGED page_count

\* lines 174-180: the record is appended to self.output_file (created if
\* missing) and the [SCRAPED] line is inserted; page_id is page_count + 1.
AppendRecord(t) ==
    /\ pc[t] = "append"
    /\ files' = [files EXCEPT ![output_file] =
                    Append(@, Record(page_count[t] + 1, current_url[t]))]
    /\ events' = [events EXCEPT ![t] =
                     Append(@, ScrapedEvent(page_count[t] + 1, current_url[t]))]
    /\ AfterLink(t, links[t])
    /\ UNCHANGED <<queue, visited, running, output_file, clock, mainv, max_pages,
                   current_url, href, absolute_url, dequeued, stopAt>>

\* line 174 raising OSError: nothing catches it, the thread ends.
AppendFails(t) ==
    /\ pc[t] = "append"
    /\ pc' = [pc EXCEPT ![t] = "crashed"]
    /\ UNCHANGED <<shared, mainv, max_pages, page_count, current_url, links,
                   href, absolute_url, histv>>

\* lines 183-190: the next <a> element, up to the test `not in
\* self.visited'.
NextLink(t, h) ==
    /\ pc[t] = "next_link"
    /\ LET joined == urljoin(current_url[t], h)
       IN  IF ~HrefMissing(h) /\ SchemeAccepted(joined) /\ joined \notin visited
           THEN /\ href' = [href EXCEPT ![t] = h]
                /\ absolute_url' = [absolute_url EXCEPT ![t] = joined]
                /\ pc' = [pc EXCEPT ![t] = "visited_add"]
                /\ UNCHANGED <<links, page_count>>
           ELSE /\ AfterLink(t, links[t] - 1)
                /\ UNCHANGED <<href, absolute_url>>
    /\ UNCHANGED <<shared, mainv, max_pages, current_url, histv>>

\* line 191: self.visited.add(absolute_url)
VisitedAdd(t) ==
    /\ pc[t] = "visited_add"
    /\ visited' = visited \cup {absolute_url[t]}
    /\ pc' = [pc EXCEPT ![t] = "queue_append"]
    /\ UNCHANGED <<queue, running, output_file, files, clock, mainv, max_pages,
                   page_count, current_url, links, href, absolute_url, histv>>

\* line 192: self.queue.append(absolute_url).  href and absolute_url are
\* dead until the next element assigns them; they are cleared here.
QueueAppend(t) ==
    /\ pc[t] = "queue_append"
    /\ queue' = Append(queue, absolute_url[t])
    /\ href' = [href EXCEPT ![t] = NoHref]
    /\ absolute_url' = [absolute_url EXCEPT ![t] = EmptyString]
    /\ AfterLink(t, links[t] - 1)
    /\ UNCHANGED <<visited, running, output_file, files, clock, mainv, max_pages,
                   current_url, histv>>

\* lines 154-155: the "BFS finished" line, then self.running = False.
Finish(t) ==
    /\ pc[t] = "finish"
    /\ events' = [events EXCEPT ![t] = Append(@, FinishedEvent(page_count[t]))]
    /\ running' = FALSE
    /\ pc' = [pc EXCEPT ![t] = "done"]
    /\ UNCHANGED <<queue, visited, output_file, files, clock, mainv, max_pages,
                   page_count, current_url, links, href, absolute_url, dequeued, stopAt>>

\* ----------------------------------------------------------- specification
Click ==
    \E now \in clock..MaxClock, use \in BOOLEAN, url_entry \in UrlEntries,
       max_entry \in MaxPagesEntries :
       StartClick(now, use, url_entry, max_entry)

MainStep ==
    \/ ClearQueue
    \/ ClearVisited
    \/ SeedQueue
    \/ SeedVisited
    \/ OpenFile
    \/ OpenFileFails
    \/ SetRunning
    \/ StartThread
    \/ StopClick

BfsStep(t, hrefs) ==
    \/ TestRunning(t)
    \/ TestQueue(t)
    \/ Pop(t)
    \/ FetchFails(t)
    \/ \E nlinks \in LinkCounts : FetchOk(t, nlinks)
    \/ AppendRecord(t)
    \/ AppendFails(t)
    \/ \E h \in hrefs : NextLink(t, h)
    \/ VisitedAdd(t)
    \/ QueueAppend(t)
    \/ Finish(t)

\* Any clicks at any time, up to MaxStarts starts.
Next == Click \/ MainStep \/ \E t \in Threads : BfsStep(t, PlainHrefs)

Spec == Init /\ [][Next]_vars

\* One click on Start (and any clicks on Stop), pages with every kind of href.
NextRun == (starts = 0 /\ Click) \/ MainStep \/ \E t \in Threads : BfsStep(t, Hrefs)

SpecRun == Init /\ [][NextRun]_vars

\* SpecRun with every thread scheduled again and again and every fetch
\* returning (requests.get has a timeout): a thread that can take a step
\* eventually takes one.
SpecRunFair == SpecRun /\ \A t \in Threads : WF_vars(BfsStep(t, Hrefs))

\* ------------------------------------------------------------------ claims
IsScraped(e)  == e.kind = "SCRAPED"
IsError(e)    == e.kind = "ERROR"
IsFinished(e) == e.kind = "FINISHED"
Count(log, Test(_)) == Len(SelectSeq(log, Test))
IsPrefix(a, b) == Len(a) <= Len(b) /\ SubSeq(b, 1, Len(a)) = a
LoopsExecuting == {t \in Threads : pc[t] \in Executing}
\* Positions of start_scraping after it has begun to change the frontier.
StartActing == {"clear_visited", "seed_queue", "seed_visited", "open_file",
                "set_running", "start_thread"}
\* Positions of start_scraping after both checks of the input have passed.
StartAccepted == {"seed_queue", "seed_visited", "open_file", "set_running",
                  "start_thread"}

\* C1: a start issued while a BFS loop is executing does nothing: at most
\* one loop is ever executing, and start_scraping never gets to reset the
\* frontier, rewrite the file or launch a thread while one is.
C1_StartOnlyWhenNoRunInProgress ==
    /\ Cardinality(LoopsExecuting) <= 1
    /\ LoopsExecuting # {} => main_pc \notin StartActing

\* C2: within one run no URL is taken from the queue twice.
C2_NoUrlDequeuedTwice ==
    \A t \in Threads : \A i, j \in DOMAIN dequeued[t] :
        i # j => dequeued[t][i] # dequeued[t][j]

\* C3: the total of a run's "BFS finished" line equals the number of its
\* [SCRAPED] lines and does not exceed its max_pages.
C3_TotalIsScrapedCountWithinBudget ==
    \A t \in Threads : \A i \in DOMAIN events[t] :
        IsFinished(events[t][i]) =>
            /\ events[t][i].total = Count(events[t], IsScraped)
            /\ events[t][i].total <= max_pages[t]

\* C4: a start with a page budget of 0 or less is rejected: start_scraping
\* does not get past its checks with it and no thread runs with it.
C4_NonPositiveBudgetRejected ==
    /\ main_pc \in StartAccepted => IntOf(max_pages_text) >= 1
    /\ \A t \in Threads : pc[t] # "unborn" => max_pages[t] >= 1

\* C5: once stop was clicked during a thread's loop, the thread's next
\* evaluation of the loop condition ends the loop.
C5_StopObservedAtNextLoopTop ==
    [][\A t \in Threads :
         (stopAt[t] # -1 /\ pc[t] = "test_running" /\ pc'[t] # "test_running")
            => pc'[t] = "finish"]_vars

\* C6: after stop was clicked during a thread's loop, the thread scrapes at
\* most one more page.
C6_AtMostOnePageAfterStop ==
    \A t \in Threads : stopAt[t] # -1 => page_count[t] <= stopAt[t] + 1

\* C7: a thread that has left run_bfs, by whatever way, has inserted exactly
\* one "BFS finished" line.
C7_EveryExitEmitsRunFinished ==
    \A t \in Threads :
        pc[t] \notin Executing \cup {"unborn"} => Count(events[t], IsFinished) = 1

\* C8: with "append" checked, start_scraping keeps every record already in
\* the output file: the old content is a prefix of the new.
C8_AppendKeepsExistingRecords ==
    [][(main_pc = "open_file" /\ use_existing)
          => IsPrefix(files[output_file], files'[output_file'])]_vars

\* C9: a fetch that fails inserts one [ERROR] line for the URL and changes
\* nothing else - not page_count, the files, the queue or the visited set -
\* and the thread is back at the loop condition; and a single run whose
\* seed fails to fetch ends with that one [ERROR] line and a total of 0.
C9_FailedFetchIsNonFatal ==
    /\ [][\A t \in Threads :
            (pc[t] = "fetch" /\ pc'[t] \notin {"fetch", "append"}) =>
                /\ events'[t] = Append(events[t], ErrorEvent(current_url[t]))
                /\ pc'[t] = "test_running"
                /\ page_count' = page_count
                /\ files' = files
                /\ queue' = queue
                /\ visited' = visited]_vars
    /\ [](\A t \in Threads :
            (/\ starts = 1
             /\ pc[t] = "done"
             /\ events[t] # << >>
             /\ events[t][1] = ErrorEvent(SeedUrl))
            => events[t] = <<ErrorEvent(SeedUrl), FinishedEvent(0)>>)

\* C9 witness: a thread scraped the seed, failed to fetch the next URL, went
\* on and finished with the one page counted.
C9_Witness ==
    \E t \in Threads :
        events[t] = <<ScrapedEvent(1, SeedUrl), ErrorEvent(PageY), FinishedEvent(1)>>

\* C10: a link goes to the frontier only if its href is an http/https
\* hyperlink: never a mailto:, javascript: or fragment-only href.
FragmentOnly(h) ==
    h.scheme = NoScheme /\ h.netloc = "" /\ h.path = << >> /\ h.frag # ""
C10_OnlyHttpLinksOffered ==
    \A t \in Threads :
        pc[t] \in {"visited_add", "queue_append"} =>
            /\ href[t].scheme \notin {MAILTO, JAVASCRIPT}
            /\ ~FragmentOnly(href[t])

\* C11: while a run is executing, the output file is the header followed by
\* one record per [SCRAPED] line of the run, numbered 1, 2, ..., k.
CorpusOf(file, k) ==
    /\ Len(file) = k + 1
    /\ file[1] = Header
    /\ \A i \in 1..k : file[i + 1] # Header /\ file[i + 1].page = i
C11_CorpusIsHeaderThenNumberedRecords ==
    \A t \in Threads :
        pc[t] \in Executing =>
            CorpusOf(files[output_file], Count(events[t], IsScraped))

\* C12: a click on Stop while self.running is False changes nothing: not the
\* flag, the frontier, a page counter, the output path or any file, and no
\* error is shown.  (A step that leaves the main thread idle and every
\* thread where it is can only be a click on Stop.)
C12_StopWhenNotRunningIsNoOp ==
    [][(main_pc = "idle" /\ main_pc' = "idle" /\ ~running /\ UNCHANGED bfsv)
          => UNCHANGED <<running, queue, visited, output_file, files, messagebox>>]_vars

\* C12 witness: Stop was clicked during a run, the run has ended with URLs
\* still pending and the flag is False: Stop can be clicked again.
C12_Witness ==
    /\ main_pc = "idle"
    /\ ~running
    /\ queue # << >>
    /\ \E t \in Threads : pc[t] = "done" /\ stopAt[t] # -1

\* C13: a run that ends with no stop clicked during it and with fewer pages
\* than its budget ends on an empty queue.
C13_EndsOnEmptyQueue ==
    [][\A t \in Threads :
         (pc[t] = "finish" /\ pc'[t] = "done" /\ stopAt[t] = -1
            /\ page_count[t] < max_pages[t])
         => queue = << >>]_vars

\* C14: in every state, every queued URL is in the visited set and no URL is
\* queued twice.
C14_QueueWithinVisitedNoDuplicates ==
    /\ \A i \in DOMAIN queue : queue[i] \in visited
    /\ \A i, j \in DOMAIN queue : i # j => queue[i] # queue[j]

\* C15: URLs leave the queue in the order they entered it: the queue only
\* changes by losing its oldest URL to the thread that fetches it, by gaining
\* one URL at its end, or by start_scraping's clear; and a thread's fetches
\* are made in the order of its dequeues.
FetchedUrls(log) ==
    [i \in 1..(Len(log) - Count(log, IsFinished)) |-> SelectSeq(log, LAMBDA e : ~IsFinished(e))[i].url]
C15_FirstDiscoveredFirstFetched ==
    /\ [][queue' # queue =>
            \/ main_pc = "clear_queue" /\ queue' = << >>
            \/ Len(queue') = Len(queue) + 1 /\ IsPrefix(queue, queue')
            \/ /\ queue # << >>
               /\ queue' = Tail(queue)
               /\ \E t \in Threads :
                     /\ pc[t] = "pop"
                     /\ current_url'[t] = Head(queue)
                     /\ dequeued'[t] = Append(dequeued[t], Head(queue))]_vars
    /\ [](\A t \in Threads : IsPrefix(FetchedUrls(events[t]), dequeued[t]))

\* C15 witness: the seed's page linked to /y and then to #section; /y was
\* dequeued first and the fragment URL is still pending behind it.
C15_Witness ==
    /\ queue = <<Url(HTTPS, "x.test", <<"">>, "section")>>
    /\ \E t \in Threads : dequeued[t] = <<SeedUrl, PageY>>

\* C16: a started run_bfs thread ends, and when no stop was clicked during
\* its loop it leaves the loop with its budget reached or the queue empty.
C16_EveryRunTerminates ==
    /\ \A t \in Threads : [](pc[t] \in Executing => <>(pc[t] \notin Executing))
    /\ [](\A t \in Threads :
            (pc[t] = "finish" /\ stopAt[t] = -1)
               => (page_count[t] >= max_pages[t] \/ queue = << >>))

\* C16 witness: a run with budget 2 ended, unstopped, with 2 pages scraped.
C16_Witness ==
    \E t \in Threads :
        pc[t] = "done" /\ stopAt[t] = -1 /\ max_pages[t] = 2 /\ page_count[t] = 2

\* C17: until a thread takes its first URL, the queue is exactly the seed and
\* the visited set exactly {seed}.
C17_RunStartsFromFreshFrontier ==
    \A t \in Threads :
        (pc[t] \in {"test_running", "test_queue", "pop"} /\ dequeued[t] = << >>)
           => (queue = <<SeedUrl>> /\ visited = {SeedUrl})

\* C18: a start that is going to be rejected (empty URL, or a max-pages text
\* that is no integer) changes nothing at any of its steps: not the queue,
\* the visited set, the output path, a file or the running flag.
Rejected(u, text) == u = EmptyString \/ ~IsIntText(text)
C18_RejectedStartChangesNothing ==
    [][(/\ main_pc' # main_pc
        /\ \/ main_pc = "idle" /\ Rejected(url', max_pages_text')
           \/ main_pc # "idle" /\ Rejected(url, max_pages_text))
          => UNCHANGED <<queue, visited, output_file, files, running>>]_vars

\* C19: whenever the main thread is idle, running is True only if a run_bfs
\* thread is executing, and is True if one is in its loop with no stop
\* clicked during it.
C19_RunningFlagReflectsRun ==
    main_pc = "idle" =>
        /\ running => LoopsExecuting # {}
        /\ \A t \in Threads : (pc[t] \in InLoop /\ stopAt[t] = -1) => running

=============================================================================
